---- MODULE Spec2Model ----
(***************************************************************************)
(* A model of the Mininet orchestrator of src/mininet/net.py: the          *)
(* topology materializer (Mininet.build and its helpers), the control      *)
(* network's configurator, the lifecycle calls (start, stop, run), the     *)
(* connectivity tester (ping_test) and the interactive shell               *)
(* (MininetCLI.run).                                                       *)
(*                                                                         *)
(* The specifications share the state and the actions:                     *)
(*   Spec      build, over every small topology and every node class;      *)
(*   SpecCtl   build, then the control network's configuration;            *)
(*   SpecLife  build, then start(), stop() and run() in any order;         *)
(*   SpecPing  build, then calls of ping_test, over star topologies;       *)
(*   SpecCLI   build, then interact() and the shell loop, over a star.     *)
(***************************************************************************)
EXTENDS Integers, Sequences, FiniteSets, TLC

\* ---------------------------------------------------------------- bounds

\* Topology identifiers (DPIDs) are 1..n for n <= MaxNodes.
MaxNodes == 3
\* A topology has at most MaxEdges edges.
MaxEdges == 2
\* SpecPing: a star topology has at most MaxPingHosts hosts.
MaxPingHosts == 2
\* A ping reports at most MaxSent packets transmitted, and at most one more
\* received.
MaxSent == 2
\* SpecCLI: a star topology has at most MaxCliHosts hosts.
MaxCliHosts == 2
\* SpecCLI: a line sent to a node has at most MaxArgs words after the first.
MaxArgs == 3
\* SpecCLI: interruptions raised while one node command is polled.
MaxInts == 1
\* Invocations of start() and stop() on one network (run() makes two).
MaxCalls == 3

VARIABLES
    topo,             \* the Topo object: hosts(), switches(), edges()
    nodeClass,        \* the host and switch classes: their inNamespace flag
    switch_is_kernel, \* Mininet.switch_is_kernel
    kernel,           \* Mininet.kernel
    nodes,            \* Mininet.nodes: dpid -> node
    controllers,      \* Mininet.controllers: name -> controller
    dps,              \* Mininet.dps
    pc,               \* where the program is
    bi,               \* build: index into the sorted list being iterated
    proc,             \* the process: "running", or how it ended
    blog,             \* recorder: the build steps taken, in order
    lastMove,         \* recorder: the namespace moves of the last edge wired
    calls,            \* recorder: the calls made on nodes by start and stop
    ncalls,           \* invocations of start() and stop() so far
    result,           \* what run() returned last
    pt,               \* ping_test: its arguments, locals and position
    cli,              \* MininetCLI: its position and what the last line did
    ctl               \* the control network's configuration: position, recorder

cfgVars == <<topo, nodeClass, switch_is_kernel, kernel>>

lifeVars == <<calls, ncalls, result>>

vars == <<cfgVars, ctl, nodes, controllers, dps, pc, bi, proc, blog, lastMove,
          lifeVars, pt, cli>>

\* ---------------------------------------------------------------- helpers

EmptyMap == [k \in {} |-> 0]

\* d[k] = v of a Python dict.
Put(f, k, v) == [x \in (DOMAIN f) \cup {k} |-> IF x = k THEN v ELSE f[x]]

ToSet(s) == {s[i] : i \in DOMAIN s}

Reverse(s) == [i \in 1..Len(s) |-> s[Len(s) + 1 - i]]

\* (a, b) < (c, d) of Python tuples.
TupleLess(p, q) == p[1] < q[1] \/ (p[1] = q[1] /\ p[2] < q[2])

RECURSIVE SortedInts(_)
\* sorted() of a collection of integers.
SortedInts(S) ==
    IF S = {} THEN << >>
    ELSE LET m == CHOOSE x \in S : \A y \in S : x <= y
         IN <<m>> \o SortedInts(S \ {m})

RECURSIVE SortedEdges(_)
\* sorted() of a collection of (src, dst) tuples.
SortedEdges(S) ==
    IF S = {} THEN << >>
    ELSE LET m == CHOOSE x \in S : \A y \in S : x = y \/ TupleLess(x, y)
         IN <<m>> \o SortedEdges(S \ {m})

\* ---------------------------------------------------------------- topology

\* Topo.name(dpid).
TopoName(dpid) == ToString(dpid)

\* The edges of the topology at dpid, in sorted order.
IncidentEdges(t, dpid) ==
    SortedEdges({e \in t.edges : e[1] = dpid \/ e[2] = dpid})

\* The port of dpid on edge e: the topology gives each edge at a node its own
\* port, numbered from 0 in sorted edge order.
PortOf(t, dpid, e) ==
    LET inc == IncidentEdges(t, dpid)
    IN (CHOOSE i \in DOMAIN inc : inc[i] = e) - 1

\* Topo.port(src, dst).
TopoPort(t, src, dst) ==
    <<PortOf(t, src, <<src, dst>>), PortOf(t, dst, <<src, dst>>)>>

\* Node.intfName(port).
IntfName(name, port) == name \o "-eth" \o ToString(port)

\* The topologies over the identifiers 1..n: each identifier is a host or a
\* switch, and an edge joins two different identifiers. hosts() and
\* switches() list the identifiers in ascending order, or in descending order
\* when `rev`.
TopologiesOver(n, revs) ==
    { [hosts    |-> IF rev THEN Reverse(SortedInts({d \in 1..n : role[d] = "host"}))
                    ELSE SortedInts({d \in 1..n : role[d] = "host"}),
       switches |-> IF rev THEN Reverse(SortedInts({d \in 1..n : role[d] = "switch"}))
                    ELSE SortedInts({d \in 1..n : role[d] = "switch"}),
       edges    |-> E] :
        role \in [1..n -> {"host", "switch"}],
        rev \in revs,
        E \in {F \in SUBSET {e \in (1..n) \X (1..n) : e[1] < e[2]} :
                    Cardinality(F) <= MaxEdges} }

\* build() sorts what it iterates, so the order of hosts() and switches()
\* shows only in the lifecycle calls.
Topologies == UNION {TopologiesOver(n, {FALSE}) : n \in 0..MaxNodes}

TopologiesAnyOrder == UNION {TopologiesOver(n, BOOLEAN) : n \in 0..MaxNodes}

\* ---------------------------------------------------------------- nodes

\* A node as the model sees it: what net.py reads and writes of a Node.
NewNode(name, kind, inNs, dp) ==
    [name |-> name, kind |-> kind, intfs |-> << >>, connection |-> EmptyMap,
     inNamespace |-> inNs, dp |-> dp, ip |-> "", defaultRoute |-> ""]

HostName(dpid) == "h_" \o TopoName(dpid)

SwitchName(dpid) == "s_" \o TopoName(dpid)

\* Topo.ip(dpid).
TopoIP(dpid) == "10.0.0." \o ToString(dpid)

NoMove == [edge |-> <<0, 0>>, srcNs |-> FALSE, dstNs |-> FALSE,
           srcFails |-> 0, dstFails |-> 0]

\* ping_test is not running. Besides the arguments and locals of ping_test the
\* record holds what a recorder of the pings sees: argEmpty (the caller passed
\* an empty list), pinged (the pairs pinged, in order), gSent and gRecv (the
\* packets sent and received that the pings with received <= sent reported),
\* badAt (the position in pinged of a ping that reported received > sent).
PtIdle ==
    [state |-> "idle", caller |-> "", hosts |-> << >>, verbose |-> FALSE,
     i |-> 0, j |-> 0, packets |-> 0, lost |-> 0, ploss |-> 0, plossNone |-> TRUE,
     ret |-> 0, retNone |-> TRUE,
     argEmpty |-> FALSE, pinged |-> << >>, gSent |-> 0, gRecv |-> 0, badAt |-> 0]

\* The node of the registry with this name.
NodeNamed(name) == CHOOSE d \in DOMAIN nodes : nodes[d].name = name

\* No shell is running. Besides the shell's nodemap and position (state:
\* "prompt" before a line is read, then "next", "monitor", "ping" or "done")
\* the record holds what a recorder sees of the line of this pass: the line as readline
\* returned it, what the loop did with it (effect: "builtin", "node", "noop",
\* "break", "error"), the built-in called with its arguments, the node a
\* command was sent to with the command, the interruptions raised while it was
\* polled, the interrupts sent to it, and whether it reported the command done.
CliOff ==
    [state |-> "off", nodemap |-> EmptyMap, line |-> << >>, effect |-> "",
     builtin |-> "", args |-> << >>, target |-> "", sent |-> << >>,
     raised |-> 0, ints |-> 0, finished |-> FALSE]

\* The control network is not being configured. Besides the position of
\* _configureRoutedControlNetwork (state, and i, the switch its first loop is
\* at) the record holds what a recorder sees: errAt (the switch the
\* configuration error was reported for, 0 for none), applied (the setIP and
\* setHostRoute calls made, each with the switch of its iteration), ctlUp and
\* up (the controller's and the switches' interfaces that reported up) and
\* tested (the switches ping_test was called for).
CtlIdle ==
    [state |-> "idle", i |-> 0, errAt |-> 0, applied |-> {}, ctlUp |-> FALSE,
     up |-> {}, tested |-> {}]

\* ---------------------------------------------------------------- Init

\* Mininet.__init__, before build() is entered.
InitWith(T) ==
    /\ topo \in T
    /\ nodeClass \in [host : BOOLEAN, switch : BOOLEAN]
    /\ switch_is_kernel \in BOOLEAN
    /\ kernel = TRUE
    /\ nodes = EmptyMap
    /\ controllers = EmptyMap
    /\ dps = 0
    /\ pc = "new"
    /\ bi = 0
    /\ proc = "running"
    /\ blog = << >>
    /\ lastMove = NoMove
    /\ calls = << >>
    /\ ncalls = 0
    /\ result = ""
    /\ pt = PtIdle
    /\ cli = CliOff
    /\ ctl = CtlIdle

Init == InitWith(Topologies)

\* ---------------------------------------------------------------- build

\* build() after the last edge: the control network in user datapath mode,
\* then the hosts' configuration.
AfterWiring == IF ~kernel THEN "control" ELSE "config"

PhaseAfterSwitchesFirst(phase) ==
    CASE phase = "controller" ->
           IF Len(topo.switches) > 0 THEN "switches"
           ELSE IF Len(topo.hosts) > 0 THEN "hosts"
           ELSE IF topo.edges # {} THEN "edges"
           ELSE AfterWiring
      [] phase = "switches" ->
           IF Len(topo.hosts) > 0 THEN "hosts"
           ELSE IF topo.edges # {} THEN "edges"
           ELSE AfterWiring
      [] phase = "hosts" ->
           IF topo.edges # {} THEN "edges" ELSE AfterWiring
      [] OTHER -> AfterWiring

\* The loop of build() that runs after `phase`, skipping the empty ones.
PhaseAfter(phase) ==
    CASE phase = "controller" ->
           IF Len(topo.hosts) > 0 THEN "hosts"
           ELSE IF Len(topo.switches) > 0 THEN "switches"
           ELSE IF topo.edges # {} THEN "edges"
           ELSE AfterWiring
      [] phase = "hosts" ->
           IF Len(topo.switches) > 0 THEN "switches"
           ELSE IF topo.edges # {} THEN "edges"
           ELSE AfterWiring
      [] phase = "switches" ->
           IF topo.edges # {} THEN "edges" ELSE AfterWiring
      [] OTHER -> AfterWiring

\* Mininet._add_controller, called first by build().
AddController ==
    /\ pc = "new" /\ proc = "running"
    /\ controllers' = Put(controllers, "c0", NewNode("c0", "controller", FALSE, -1))
    /\ pc' = PhaseAfter("controller")
    /\ bi' = 1
    /\ blog' = Append(blog, <<"controller", 0, 0>>)
    /\ lastMove' = NoMove
    /\ UNCHANGED <<cfgVars, ctl, nodes, dps,
                   proc, lifeVars, pt, cli>>

\* Mininet._add_host: the host starts with its one interface, eth0.
AddHostNode(dpid) ==
    [NewNode(HostName(dpid), "host", nodeClass.host, -1)
        EXCEPT !.intfs = <<HostName(dpid) \o "-eth0">>]

\* One iteration of build()'s loop over sorted(topo.hosts()).
AddHost ==
    /\ pc = "hosts" /\ proc = "running"
    /\ LET hs == SortedInts(ToSet(topo.hosts))
           dpid == hs[bi]
       IN /\ nodes' = Put(nodes, dpid, AddHostNode(dpid))
          /\ blog' = Append(blog, <<"host", dpid, 0>>)
          /\ IF bi < Len(hs)
             THEN pc' = pc /\ bi' = bi + 1
             ELSE pc' = PhaseAfter("hosts") /\ bi' = 1
    /\ lastMove' = NoMove
    /\ UNCHANGED <<cfgVars, ctl, controllers, dps,
                   proc, lifeVars, pt, cli>>

\* The datapath index a new switch gets ('nl:' + str(self.dps)), -1 for none.
SwitchDp == IF switch_is_kernel THEN dps ELSE -1

DpsAfterSwitchStuck == dps

\* self.dps after _add_switch.
DpsAfterSwitch == IF switch_is_kernel THEN dps + 1 ELSE dps

\* One iteration of build()'s loop over sorted(topo.switches()): _add_switch.
AddSwitch ==
    /\ pc = "switches" /\ proc = "running"
    /\ LET ss == SortedInts(ToSet(topo.switches))
           dpid == ss[bi]
       IN /\ nodes' = Put(nodes, dpid,
                          NewNode(SwitchName(dpid), "switch", nodeClass.switch, SwitchDp))
          /\ dps' = DpsAfterSwitch
          /\ blog' = Append(blog, <<"switch", dpid, 0>>)
          /\ IF bi < Len(ss)
             THEN pc' = pc /\ bi' = bi + 1
             ELSE pc' = PhaseAfter("switches") /\ bi' = 1
    /\ lastMove' = NoMove
    /\ UNCHANGED <<cfgVars, ctl, controllers,
                   proc, lifeVars, pt, cli>>

\* retry(n, delay, fn, ...): fn is tried until it succeeds, within a budget of
\* n attempts; `fails` is how many attempts in a row fail before one succeeds.
\* TRUE when an attempt within the budget succeeds.
retry(n, fails) == fails < n

\* The attempt budget _add_link passes to retry.
MoveRetriesShort == 2

MoveRetries == 3

\* What the attempts of one move can do: the first i attempts fail and the next
\* succeeds, for i below the budget, or all the attempts of the budget fail.
MoveFails == 0..MoveRetries

\* if src_node.inNamespace: the source's interface has to be moved.
SrcMoveNeeded(node) == node.inNamespace

\* if dst_node.inNamespace: the destination's interface has to be moved.
DstMoveNeeded(node) == node.inNamespace

\* src_node.intfs.append(src_intf); dst_node.intfs.append(dst_intf)
AppendIntfs(ns, src, dst, src_intf, dst_intf) ==
    [ns EXCEPT ![src].intfs = Append(@, src_intf),
               ![dst].intfs = Append(@, dst_intf)]

SetConnectionsOneWay(ns, src, dst, src_intf, dst_intf) ==
    [ns EXCEPT ![src].connection = Put(@, src_intf, <<ns[dst].name, dst_intf>>)]

\* src_node.connection[src_intf] = (dst_node, dst_intf)
\* dst_node.connection[dst_intf] = (src_node, src_intf)
SetConnections(ns, src, dst, src_intf, dst_intf) ==
    [ns EXCEPT ![src].connection = Put(@, src_intf, <<ns[dst].name, dst_intf>>),
               ![dst].connection = Put(@, dst_intf, <<ns[src].name, src_intf>>)]

\* One iteration of build()'s loop over sorted(topo.edges()): _add_link. The
\* moves' outcomes are the environment's; a move that exhausts its budget
\* ends the process inside retry, before the connection maps are written.
AddLink ==
    /\ pc = "edges" /\ proc = "running"
    /\ LET es == SortedEdges(topo.edges)
           src == es[bi][1]
           dst == es[bi][2]
           ports == TopoPort(topo, src, dst)
           src_intf == IntfName(nodes[src].name, ports[1])
           dst_intf == IntfName(nodes[dst].name, ports[2])
           appended == AppendIntfs(nodes, src, dst, src_intf, dst_intf)
       IN \E sf \in (IF nodes[src].inNamespace THEN MoveFails ELSE {0}) :
          \E df \in (IF nodes[dst].inNamespace /\ retry(MoveRetries, sf)
                      THEN MoveFails ELSE {0}) :
            LET srcOk == SrcMoveNeeded(nodes[src]) => retry(MoveRetries, sf)
                dstOk == DstMoveNeeded(nodes[dst]) => retry(MoveRetries, df)
            IN /\ lastMove' = [edge |-> es[bi],
                               srcNs |-> nodes[src].inNamespace,
                               dstNs |-> nodes[dst].inNamespace,
                               srcFails |-> sf,
                               dstFails |-> df]
               /\ blog' = Append(blog, <<"edge", src, dst>>)
               /\ IF srcOk /\ dstOk
                  THEN /\ nodes' = SetConnections(appended, src, dst, src_intf, dst_intf)
                       /\ proc' = proc
                       /\ IF bi < Len(es)
                          THEN pc' = pc /\ bi' = bi + 1
                          ELSE pc' = PhaseAfter("edges") /\ bi' = 1
                  ELSE /\ nodes' = appended
                       /\ proc' = "exit"
                       /\ pc' = pc /\ bi' = bi
    /\ UNCHANGED <<cfgVars, ctl, controllers, dps,
                   lifeVars, pt, cli>>

\* Mininet._config_hosts: every host's first interface gets the host's
\* address and the default route.
ConfigHosts ==
    /\ pc = "config" /\ proc = "running"
    /\ nodes' = [d \in DOMAIN nodes |->
                   IF d \in ToSet(topo.hosts)
                   THEN [nodes[d] EXCEPT !.ip = TopoIP(d),
                                         !.defaultRoute = nodes[d].intfs[1]]
                   ELSE nodes[d]]
    /\ blog' = Append(blog, <<"config_hosts", 0, 0>>)
    /\ pc' = "built"
    /\ bi' = 0
    /\ lastMove' = NoMove
    /\ UNCHANGED <<cfgVars, ctl, controllers, dps,
                   proc, lifeVars, pt, cli>>

Build == AddController \/ AddHost \/ AddSwitch \/ AddLink \/ ConfigHosts

Next == Build

Spec == Init /\ [][Next]_vars

\* ---------------------------------------------------------------- control network

\* self.cparams.ip
ControllerIP == "cparams.ip"

\* _configureControlNetwork() is entered: by build() in user datapath mode, or
\* by a caller on a built network.
ConfigureControlNetwork ==
    /\ pc \in {"control", "built"} /\ proc = "running"
    /\ pt.state = "idle" /\ cli.state = "off" /\ ctl.state = "idle"
    /\ ctl' = [CtlIdle EXCEPT !.state = IF Len(topo.switches) > 0
                                       THEN "addressing" ELSE "testing",
                              !.i = 1]
    /\ blog' = IF pc = "control" THEN Append(blog, <<"control", 0, 0>>) ELSE blog
    /\ UNCHANGED <<cfgVars, nodes, controllers, dps, pc, bi, proc, lastMove,
                   lifeVars, pt, cli>>

PeerIsControllerAlways(peer) == TRUE

\* node != controller, negated: the peer is the controller handle.
PeerIsController(peer) == peer[1] = controllers["c0"].name

\* The four calls of one iteration: controller.setIP, switch.setIP,
\* controller.setHostRoute, switch.setHostRoute.
Addressing(dpid) ==
    {<<dpid, "controller.setIP">>, <<dpid, "switch.setIP">>,
     <<dpid, "controller.setHostRoute">>, <<dpid, "switch.setHostRoute">>}

\* One iteration of the first loop of _configureRoutedControlNetwork, over
\* topo.switches(): the peer of the switch's first interface is checked, then
\* both sides are addressed and routed.
CtlAddress ==
    /\ ctl.state = "addressing" /\ proc = "running"
    /\ LET dpid == topo.switches[ctl.i]
           switch == nodes[dpid]
       IN IF Len(switch.intfs) = 0
          THEN /\ proc' = "IndexError"
               /\ ctl' = [ctl EXCEPT !.state = "ended"]
               /\ UNCHANGED <<nodes, controllers>>
          ELSE IF switch.intfs[1] \notin DOMAIN switch.connection
          THEN /\ proc' = "KeyError"
               /\ ctl' = [ctl EXCEPT !.state = "ended"]
               /\ UNCHANGED <<nodes, controllers>>
          ELSE IF ~PeerIsController(switch.connection[switch.intfs[1]])
          THEN /\ proc' = "exit"
               /\ ctl' = [ctl EXCEPT !.state = "ended", !.errAt = dpid]
               /\ UNCHANGED <<nodes, controllers>>
          ELSE /\ proc' = proc
               /\ controllers' = [controllers EXCEPT !["c0"].ip = ControllerIP]
               /\ nodes' = [nodes EXCEPT ![dpid].ip = TopoIP(dpid)]
               /\ ctl' = [ctl EXCEPT !.applied = @ \cup Addressing(dpid),
                                     !.i = @ + 1,
                                     !.state = IF ctl.i < Len(topo.switches)
                                               THEN "addressing" ELSE "testing"]
    /\ UNCHANGED <<cfgVars, dps, pc, bi, blog, lastMove, lifeVars, pt, cli>>

\* _configureRoutedControlNetwork from '*** Testing control network': the
\* controller's first interface is polled until it is up, then each switch's
\* first interface is, and ping_test(hosts=[switch, controller]) is called.
\* ping_test looks its hosts up in self.nodes, which is keyed by DPID: called
\* with node handles it ends at its first lookup.
CtlTest ==
    /\ ctl.state = "testing" /\ proc = "running"
    /\ IF Len(controllers["c0"].intfs) = 0
       THEN /\ proc' = "IndexError"
            /\ ctl' = [ctl EXCEPT !.state = "ended"]
            /\ UNCHANGED pc
       ELSE \E cup \in BOOLEAN :
            IF ~cup
            THEN UNCHANGED <<proc, ctl, pc>>
            ELSE IF Len(topo.switches) = 0
            THEN /\ ctl' = [ctl EXCEPT !.state = "returned", !.ctlUp = TRUE]
                 /\ pc' = IF pc = "control" THEN "config" ELSE pc
                 /\ UNCHANGED proc
            ELSE \E sup \in BOOLEAN :
                 IF ~sup
                 THEN /\ ctl' = [ctl EXCEPT !.ctlUp = TRUE]
                      /\ UNCHANGED <<proc, pc>>
                 ELSE /\ ctl' = [ctl EXCEPT !.ctlUp = TRUE,
                                            !.up = {topo.switches[1]},
                                            !.tested = {topo.switches[1]},
                                            !.state = "ended"]
                      /\ proc' = "KeyError"
                      /\ UNCHANGED pc
    /\ UNCHANGED <<cfgVars, nodes, controllers, dps, bi, blog, lastMove,
                   lifeVars, pt, cli>>

ControlNetwork == ConfigureControlNetwork \/ CtlAddress \/ CtlTest

\* The control network of the networks without namespaces, with hosts() and
\* switches() in either order.
InitCtl ==
    /\ InitWith(TopologiesAnyOrder)
    /\ nodeClass = [host |-> FALSE, switch |-> FALSE]

NextCtl == Build \/ ControlNetwork

SpecCtl == InitCtl /\ [][NextCtl]_vars

\* ---------------------------------------------------------------- control network: claims

\* The peer of the first interface of this switch is the controller handle.
FirstPeerIsController(dpid) ==
    /\ Len(nodes[dpid].intfs) > 0
    /\ nodes[dpid].intfs[1] \in DOMAIN nodes[dpid].connection
    /\ nodes[dpid].connection[nodes[dpid].intfs[1]][1] = "c0"

\* C11: during control-network configuration no switch whose first
\* interface's peer is not the controller handle gets past its iteration; the
\* configuration aborts at it with the fatal configuration error, and no
\* setIP and no setHostRoute, on the switch or on the controller, has been
\* made for that switch, whose address is still unset.
C11_ValidationBeforeAddressing ==
    /\ \A k \in 1..(ctl.i - 1) : FirstPeerIsController(topo.switches[k])
    /\ \A a \in ctl.applied : FirstPeerIsController(a[1])
    /\ ctl.errAt # 0 =>
          /\ proc = "exit" /\ ctl.state = "ended"
          /\ ctl.errAt = topo.switches[ctl.i]
          /\ ~FirstPeerIsController(ctl.errAt)
          /\ \A a \in ctl.applied : a[1] # ctl.errAt
          /\ nodes[ctl.errAt].ip = ""

\* C11 witness: the configuration has aborted at a switch whose first
\* interface leads to another node than the controller.
C11_Witness ==
    /\ ctl.errAt # 0 /\ proc = "exit"
    /\ Len(nodes[ctl.errAt].intfs) > 0
    /\ nodes[ctl.errAt].connection[nodes[ctl.errAt].intfs[1]][1] # "c0"

\* C19 (the claim as stated): the tester is called for a switch only once the
\* controller's and that switch's first interface have reported up; and a
\* configuration that has addressed every switch and has met no loss in the
\* test of any of them returns, the process alive, for the build to go on to
\* the hosts.
C19_ControlNetworkTest ==
    /\ \A d \in ctl.tested : ctl.ctlUp /\ d \in ctl.up
    /\ (/\ ctl.state \in {"ended", "returned"}
        /\ ctl.errAt = 0
        /\ \A d \in ToSet(topo.switches) : <<d, "switch.setIP">> \in ctl.applied) =>
          /\ ctl.state = "returned"
          /\ proc = "running"

\* ---------------------------------------------------------------- lifecycle

\* One recorded call on a node, made by invocation `inv` of start() or stop().
Call(inv, op, name) == [inv |-> inv, op |-> op, node |-> name]

\* The calls of the loop `for dpid in dpids: self.nodes[dpid].<op>()`.
CallEach(inv, op, dpids) ==
    [k \in 1..Len(dpids) |-> Call(inv, op, nodes[dpids[k]].name)]

StartCallsSwitchesFirst(inv) ==
    CallEach(inv, "start", topo.switches) \o <<Call(inv, "start", controllers["c0"].name)>>

\* Mininet.start: the controller, then every switch of topo.switches().
StartCalls(inv) ==
    <<Call(inv, "start", controllers["c0"].name)>> \o CallEach(inv, "start", topo.switches)

\* Mininet.stop: every host of topo.hosts(), then every switch, then the
\* controller.
StopCalls(inv) ==
    CallEach(inv, "terminate", topo.hosts)
        \o CallEach(inv, "stop", topo.switches)
        \o <<Call(inv, "stop", controllers["c0"].name)>>

\* mn.start(), called on a built network.
Start ==
    /\ pc = "built" /\ proc = "running" /\ pt.state = "idle"
    /\ ncalls < MaxCalls
    /\ calls' = calls \o StartCalls(ncalls + 1)
    /\ ncalls' = ncalls + 1
    /\ UNCHANGED <<cfgVars, ctl, nodes, controllers, dps, pc, bi, proc, blog,
                   lastMove, result, pt, cli>>

\* mn.stop(), called on a built network.
Stop ==
    /\ pc = "built" /\ proc = "running" /\ pt.state = "idle"
    /\ ncalls < MaxCalls
    /\ calls' = calls \o StopCalls(ncalls + 1)
    /\ ncalls' = ncalls + 1
    /\ UNCHANGED <<cfgVars, ctl, nodes, controllers, dps, pc, bi, proc, blog,
                   lastMove, result, pt, cli>>

\* What a test callback passed to run() may return.
TestResults == {"passed", "failed"}

TestCallsTwice(inv) ==
    <<Call(inv, "test", "callback"), Call(inv, "test", "callback")>>

\* result = test(self, **params): the callback is entered.
TestCalls(inv) == <<Call(inv, "test", "callback")>>

\* mn.run(test, **params) up to the call of test: self.start(), then
\* test(self, **params) is entered.
RunBegin ==
    /\ pc = "built" /\ proc = "running" /\ pt.state = "idle"
    /\ ncalls + 2 <= MaxCalls
    /\ calls' = calls \o StartCalls(ncalls + 1) \o TestCalls(ncalls + 1)
    /\ ncalls' = ncalls + 1
    /\ pc' = "in_test"
    /\ UNCHANGED <<cfgVars, ctl, nodes, controllers, dps, bi, proc, blog,
                   lastMove, result, pt, cli>>

\* mn.run(test, **params) from the return of test, which the recorder notes
\* with the value returned: self.stop(), and the callback's result is
\* returned.
RunEnd ==
    /\ pc = "in_test" /\ proc = "running" /\ pt.state = "idle"
    /\ \E r \in TestResults :
          /\ result' = r
          /\ calls' = calls \o <<Call(ncalls, "return", r)>> \o StopCalls(ncalls + 1)
    /\ ncalls' = ncalls + 1
    /\ pc' = "built"
    /\ UNCHANGED <<cfgVars, ctl, nodes, controllers, dps, bi, proc, blog,
                   lastMove, pt, cli>>

Lifecycle == Start \/ Stop \/ RunBegin \/ RunEnd

\* Lifecycle calls read the registry and the topology's lists only: the
\* networks here are the kernel-datapath ones without namespaces, with
\* hosts() and switches() in either order.
InitLife ==
    /\ InitWith(TopologiesAnyOrder)
    /\ nodeClass = [host |-> FALSE, switch |-> FALSE]
    /\ switch_is_kernel = TRUE

NextLife == Build \/ Lifecycle

SpecLife == InitLife /\ [][NextLife]_vars

\* ---------------------------------------------------------------- lifecycle: claims

\* The positions in the recorder of the calls of invocation inv with this op.
CallsOf(inv, ops) == {k \in DOMAIN calls : calls[k].inv = inv /\ calls[k].op \in ops}

IsController(k) == calls[k].node = "c0"

\* C1: within every invocation, start() starts the controller strictly before
\* any switch, and stop() terminates every host strictly before it stops any
\* switch and stops every switch strictly before it stops the controller; the
\* recorder holds exactly these calls: one start of the controller and of each
\* switch, or one terminate of each host and one stop of each switch and of
\* the controller.
C1_LifecycleOrder ==
    \A inv \in 1..ncalls :
        LET st == CallsOf(inv, {"start"})
            te == CallsOf(inv, {"terminate"})
            sp == CallsOf(inv, {"stop"})
            switchNames == {nodes[d].name : d \in ToSet(topo.switches)}
            hostNames == {nodes[d].name : d \in ToSet(topo.hosts)}
        IN /\ \A a \in st, b \in st : (IsController(a) /\ ~IsController(b)) => a < b
           /\ \A a \in te, b \in sp : a < b
           /\ \A a \in sp, b \in sp : (~IsController(a) /\ IsController(b)) => a < b
           /\ st # {} =>
                /\ te = {} /\ sp = {}
                /\ Cardinality(st) = 1 + Len(topo.switches)
                /\ {calls[k].node : k \in st} = {"c0"} \cup switchNames
           /\ st = {} =>
                /\ Cardinality(te) = Len(topo.hosts)
                /\ {calls[k].node : k \in te} = hostNames
                /\ Cardinality(sp) = Len(topo.switches) + 1
                /\ {calls[k].node : k \in sp} = switchNames \cup {"c0"}

\* C1 witness: a network with a host and two switches has been started and
\* then stopped.
C1_Witness ==
    /\ Len(topo.switches) >= 2 /\ Len(topo.hosts) >= 1
    /\ ncalls >= 2
    /\ CallsOf(1, {"start"}) # {}
    /\ CallsOf(2, {"stop"}) # {}

\* The calls that end a node: terminate() of a host, stop() of a switch or of
\* the controller.
EndingCalls(name) ==
    {k \in DOMAIN calls : calls[k].op \in {"terminate", "stop"} /\ calls[k].node = name}

\* C12 (the claim as stated): over any sequence of lifecycle calls no host is
\* terminated and no switch or controller is stopped more than once, a stop()
\* on a stopped network being rejected before it reaches a node.
C12_NoDoubleStop ==
    \A name \in {calls[k].node : k \in DOMAIN calls} : Cardinality(EndingCalls(name)) <= 1

\* The network is Running when the call at position k of the recorder is
\* made: a start() has been made before it and no node has been ended.
RunningBefore(k) ==
    /\ \E j \in 1..(k - 1) : calls[j].op = "start"
    /\ \A j \in 1..(k - 1) : calls[j].op \notin {"terminate", "stop"}

\* The position of the first call the invocation of the call at k made.
FirstOf(k) == CHOOSE j \in DOMAIN calls :
                  /\ calls[j].inv = calls[k].inv
                  /\ \A i \in 1..(j - 1) : calls[i].inv # calls[k].inv

\* C13: a run(test, params) called on a Running network enters the callback
\* exactly once, at a point where the controller and every switch have been
\* started and no node has been terminated or stopped; and what run() returned
\* last is what the callback returned last.
C13_RunCallsTestOnce ==
    /\ \A k \in DOMAIN calls :
          (calls[k].op = "test" /\ RunningBefore(FirstOf(k))) =>
             /\ Cardinality(CallsOf(calls[k].inv, {"test"})) = 1
             /\ calls[k].node = "callback"
             /\ \A name \in {"c0"} \cup {nodes[d].name : d \in ToSet(topo.switches)} :
                   \E j \in 1..(k - 1) : calls[j].op = "start" /\ calls[j].node = name
             /\ \A j \in 1..(k - 1) : calls[j].op \notin {"terminate", "stop"}
             /\ Cardinality(CallsOf(calls[k].inv, {"return"})) <= 1
             /\ \A j \in CallsOf(calls[k].inv, {"return"}) : j > k
    /\ LET rets == {j \in DOMAIN calls : calls[j].op = "return"}
       IN rets # {} =>
            result = calls[CHOOSE j \in rets : \A i \in rets : i <= j].node

\* C13 witness: run() was called after start() on a network with a switch,
\* and has returned what its callback returned.
C13_Witness ==
    /\ Len(topo.switches) >= 1
    /\ pc = "built"
    /\ \E k \in DOMAIN calls :
          /\ calls[k].op = "test" /\ RunningBefore(FirstOf(k))
          /\ \E j \in CallsOf(calls[k].inv, {"return"}) : calls[j].node = result

\* The invocations that started nodes: start() called by the caller, and
\* run(), whose invocation also entered a callback.
DirectStarts ==
    {inv \in 1..ncalls : CallsOf(inv, {"start"}) # {} /\ CallsOf(inv, {"test"}) = {}}

Runs == {inv \in 1..ncalls : CallsOf(inv, {"test"}) # {}}

\* The calls made so far follow Built -> Running -> Stopped: at most one
\* start() and at most one run(), the start() first, and nothing is started
\* once a node has been terminated or stopped.
FollowsLifecycle ==
    /\ Cardinality(DirectStarts) <= 1
    /\ Cardinality(Runs) <= 1
    /\ \A a \in DirectStarts, b \in Runs : a < b
    /\ \A j \in DOMAIN calls, k \in DOMAIN calls :
          (j < k /\ calls[j].op \in {"terminate", "stop"}) => calls[k].op # "start"

\* C22 (the claim as stated): over a sequence of start, run and stop calls
\* that follows Built -> Running -> Stopped the controller and each switch are
\* started at most once; a run() on a network that start() has made Running
\* starts nothing again.
C22_StartedAtMostOnce ==
    FollowsLifecycle =>
        \A name \in {calls[k].node : k \in DOMAIN calls} :
            Cardinality({k \in DOMAIN calls :
                            calls[k].op = "start" /\ calls[k].node = name}) <= 1

\* ---------------------------------------------------------------- ping_test

\* The star with k hosts: hosts 1..k, each linked to the switch k + 1.
Star(k) ==
    [hosts |-> [i \in 1..k |-> i], switches |-> <<k + 1>>,
     edges |-> {<<i, k + 1>> : i \in 1..k}]

\* What one ping reports: packets transmitted and received.
PingStats == [sent : 0..MaxSent, received : 0..MaxSent + 1]

\* The output of `ping -c1 <address>`, as the matches of the pattern
\* '(\d+) packets transmitted, (\d+) received' in it, in order: none, one, or
\* one followed by another.
PingOutputs ==
    {<< >>} \cup {<<s>> : s \in PingStats}
            \cup {<<s, [sent |-> 0, received |-> 0]>> : s \in PingStats}

\* Mininet._parse_ping: re.search finds the first match; no match is fatal.
ParseOk(out) == Len(out) > 0

ParsePing(out) == out[1]

\* The hosts argument of ping_test: None, or a list of dpids of the registry
\* (here: without repetition, ascending).
HostsArgs ==
    {[none |-> TRUE, list |-> << >>]} \cup
    {[none |-> FALSE, list |-> SortedInts(S)] : S \in SUBSET (DOMAIN nodes)}

\* if not hosts: hosts = self.topo.hosts()
EffectiveHosts(arg) ==
    IF arg.none \/ Len(arg.list) = 0 THEN topo.hosts ELSE arg.list

\* ping_test up to its loops, for these arguments.
PtEntered(caller, arg, verbose) ==
    [PtIdle EXCEPT !.state = "run", !.caller = caller,
                   !.hosts = EffectiveHosts(arg), !.verbose = verbose,
                   !.i = 1, !.j = 1,
                   !.argEmpty = (~arg.none /\ Len(arg.list) = 0)]

\* mn.ping_test(hosts, verbose), called on a built network.
PingTestCall ==
    /\ pc = "built" /\ proc = "running" /\ cli.state = "off"
    /\ pt.state \in {"idle", "returned"}
    /\ \E arg \in HostsArgs, verbose \in BOOLEAN :
          pt' = PtEntered("main", arg, verbose)
    /\ UNCHANGED <<cfgVars, ctl, nodes, controllers, dps, pc, bi, proc, blog,
                   lastMove, lifeVars, cli>>

\* if node != dest: the positions from j on in hosts whose node is not the
\* node of position i.
DestsFrom(i, j) ==
    {k \in j..Len(pt.hosts) : nodes[pt.hosts[k]] # nodes[pt.hosts[i]]}

TooManyNever(sent, received) == FALSE

\* if received > sent
TooMany(sent, received) == received > sent

\* lost += sent - received
LostAfter(lost, sent, received) == lost + (sent - received)

\* One ping of the inner loop: node.cmd('ping -c1 ' + dest.IP()), _parse_ping
\* and the counters; an unparsable output and received > sent end the process.
PingPair ==
    /\ proc = "running" /\ pt.state = "run"
    /\ pt.i <= Len(pt.hosts) /\ DestsFrom(pt.i, pt.j) # {}
    /\ LET k == CHOOSE x \in DestsFrom(pt.i, pt.j) : \A y \in DestsFrom(pt.i, pt.j) : x <= y
           pair == <<pt.hosts[pt.i], pt.hosts[k]>>
       IN \E out \in PingOutputs :
            IF ~ParseOk(out)
            THEN /\ proc' = "exit"
                 /\ pt' = [pt EXCEPT !.pinged = Append(@, pair), !.j = k]
            ELSE LET sent == ParsePing(out).sent
                     received == ParsePing(out).received
                     bad == received > sent
                     counted == [pt EXCEPT
                         !.pinged = Append(@, pair),
                         !.packets = @ + sent,
                         !.gSent = IF bad THEN @ ELSE @ + sent,
                         !.gRecv = IF bad THEN @ ELSE @ + received,
                         !.badAt = IF bad /\ pt.badAt = 0
                                   THEN Len(pt.pinged) + 1 ELSE @]
                 IN IF TooMany(sent, received)
                    THEN /\ proc' = "exit"
                         /\ pt' = [counted EXCEPT !.j = k]
                    ELSE /\ proc' = proc
                         /\ pt' = [counted EXCEPT
                                !.j = k + 1,
                                !.lost = LostAfter(@, sent, received)]
    /\ UNCHANGED <<cfgVars, ctl, nodes, controllers, dps, pc, bi, blog, lastMove,
                   lifeVars, cli>>

PlossRoundedUp(lost, packets) == (100 * lost + packets - 1) \div packets

\* 100 * lost / packets on Python 2 integers (floor division), packets # 0.
Ploss(lost, packets) == (100 * lost) \div packets

\* The end of one pass of the outer loop: ploss = 100 * lost / packets, which
\* raises ZeroDivisionError when no packet was sent so far.
PingRowEnd ==
    /\ proc = "running" /\ pt.state = "run"
    /\ pt.i <= Len(pt.hosts) /\ DestsFrom(pt.i, pt.j) = {}
    /\ IF pt.packets = 0
       THEN /\ proc' = "ZeroDivisionError"
            /\ pt' = pt
       ELSE /\ proc' = proc
            /\ pt' = [pt EXCEPT !.ploss = Ploss(pt.lost, pt.packets),
                                !.plossNone = FALSE,
                                !.i = @ + 1, !.j = 1]
    /\ UNCHANGED <<cfgVars, ctl, nodes, controllers, dps, pc, bi, blog, lastMove,
                   lifeVars, cli>>

\* After the loops: the verbose summary formats ploss with %d, a TypeError
\* when ploss is still None; then ploss is returned.
PingReturn ==
    /\ proc = "running" /\ pt.state = "run"
    /\ pt.i > Len(pt.hosts)
    /\ IF pt.verbose /\ pt.plossNone
       THEN /\ proc' = "TypeError"
            /\ pt' = pt
       ELSE /\ proc' = proc
            /\ pt' = [pt EXCEPT !.state = "returned", !.ret = pt.ploss,
                                !.retNone = pt.plossNone]
    /\ UNCHANGED <<cfgVars, ctl, nodes, controllers, dps, pc, bi, blog, lastMove,
                   lifeVars, cli>>

PingTest == PingPair \/ PingRowEnd \/ PingReturn

\* ping_test reads the registry and topo.hosts() only: the networks here are
\* the stars of up to MaxPingHosts hosts, kernel datapath, no namespaces.
InitPing ==
    /\ InitWith({Star(k) : k \in 0..MaxPingHosts})
    /\ nodeClass = [host |-> FALSE, switch |-> FALSE]
    /\ switch_is_kernel = TRUE

NextPing == Build \/ PingTestCall \/ PingTest

SpecPing == InitPing /\ [][NextPing]_vars

\* ---------------------------------------------------------------- ping_test: claims

\* C6: when ping_test returns after pinging, the value is an integer in
\* [0, 100], the quotient of 100 * totalLost by totalSent truncated, where
\* totalSent and totalLost = totalSent - totalReceived are summed over every
\* pair pinged in the call.
C6_LossPercentage ==
    (pt.state = "returned" /\ Len(pt.pinged) > 0) =>
        LET totalSent == pt.gSent
            totalLost == pt.gSent - pt.gRecv
        IN /\ ~pt.retNone
           /\ pt.ret \in 0..100
           /\ totalSent > 0
           /\ pt.ret * totalSent <= 100 * totalLost
           /\ 100 * totalLost < (pt.ret + 1) * totalSent

\* C6 witness: 3 packets sent in all, 1 lost, and ping_test returned 33.
C6_Witness ==
    /\ pt.state = "returned"
    /\ pt.gSent = 3 /\ pt.gRecv = 2
    /\ pt.ret = 33 /\ ~pt.retNone

\* C7 (the claim as stated): a call of ping_test over an empty node set (an
\* empty list passed, or no host to ping at all) ends by returning, not in a
\* division by zero or any other error, with verbose on or off.
C7_EmptySetReturns ==
    (pt.state = "run" /\ (pt.argEmpty \/ Len(pt.hosts) = 0)) =>
        proc \notin {"ZeroDivisionError", "TypeError"}

\* C8: a ping that reports received > sent ends the process at that pair: it
\* is the last pair pinged, ping_test does not return, and the pair's counts
\* are not taken into `lost`, which stays the packets lost by the other pings.
C8_AnomalyIsFatal ==
    (pt.badAt # 0) =>
        /\ proc = "exit"
        /\ pt.state = "run"
        /\ Len(pt.pinged) = pt.badAt
        /\ pt.lost = pt.gSent - pt.gRecv

\* C8 witness: the second or a later ping of a call reported received > sent,
\* with pairs still to ping, and the process ended.
C8_Witness ==
    /\ pt.badAt >= 2
    /\ pt.badAt < Len(pt.hosts) * (Len(pt.hosts) - 1)
    /\ proc = "exit"

\* C20 (the claim as stated): a call of ping_test that completes has pinged
\* every ordered pair (A, B), A # B, of the node set S it was given exactly once
\* and no other pair, |S| * (|S| - 1) pings in all; S is the set of all hosts
\* when no set was given.
C20_EveryOrderedPairOnce ==
    pt.state = "returned" =>
        LET S == IF pt.argEmpty THEN {} ELSE ToSet(pt.hosts)
        IN /\ ToSet(pt.pinged) = {p \in S \X S : p[1] # p[2]}
           /\ Len(pt.pinged) = Cardinality(S) * (Cardinality(S) - 1)

\* C21 (the claim as stated): a call of ping_test on a non-empty node set
\* never divides by zero: the packets sent so far are more than zero wherever
\* the loss percentage is computed, also for a set of a single node and for
\* pings that report 0 packets transmitted.
C21_PacketsPositive ==
    (pt.state = "run" /\ ~pt.argEmpty /\ Len(pt.hosts) > 0) =>
        proc # "ZeroDivisionError"

\* ---------------------------------------------------------------- shell

\* A line is a sequence of atoms: " " (a space), "\t" (a tab), "\n" (the
\* newline that ends it) and words, strings without whitespace.
RECURSIVE Split(_)
\* str.split(' '): the pieces between the spaces, each a sequence of atoms.
Split(s) ==
    IF \A k \in DOMAIN s : s[k] # " " THEN <<s>>
    ELSE LET k == CHOOSE x \in DOMAIN s :
                      s[x] = " " /\ \A y \in 1..(x - 1) : s[y] # " "
         IN <<SubSeq(s, 1, k - 1)>> \o Split(SubSeq(s, k + 1, Len(s)))

RECURSIVE Str(_)
\* The string a sequence of atoms spells.
Str(atoms) == IF atoms = << >> THEN "" ELSE Head(atoms) \o Str(Tail(atoms))

\* input.split(' ') as a list of strings.
SplitWords(s) == [k \in DOMAIN Split(s) |-> Str(Split(s)[k])]

RECURSIVE Join(_)
\* ' '.join(words), as atoms.
Join(words) ==
    IF Len(words) = 0 THEN << >>
    ELSE IF Len(words) = 1 THEN <<words[1]>>
    ELSE <<words[1], " ">> \o Join(Tail(words))

\* if input[-1] == '\n': input = input[:-1]
StripNewline(raw) ==
    IF raw[Len(raw)] = "\n" THEN SubSeq(raw, 1, Len(raw) - 1) ELSE raw

CmdsWithoutNet == {"?", "help", "nodes", "sh", "ping_all", "exit", "ping_pair"}

\* MininetCLI.cmds
Cmds == {"?", "help", "nodes", "net", "sh", "ping_all", "exit", "ping_pair"}

\* hasattr(self, name): the attributes of a MininetCLI object.
CliAttributes ==
    {"help", "nodes", "net", "sh", "ping_all", "ping_pair", "run",
     "cmds", "mn", "nodemap", "nodelist"}

\* The words a line is made of.
FirstWordsLong == {"", "h_1", "s_3", "c0"}

FirstWordsShort ==
    {"help", "nodes", "net", "sh", "ping_all", "ping_pair", "?", "exit", "quit",
     "foo", "\t"}

ArgWords == {"", "h_2", "s_3", "c0", "ping", "-c1"}

RECURSIVE WordLists(_)
\* The lists of at most n argument words.
WordLists(n) ==
    IF n = 0 THEN {<< >>}
    ELSE WordLists(n - 1) \cup
         {Append(l, w) : l \in {x \in WordLists(n - 1) : Len(x) = n - 1}, w \in ArgWords}

\* The atoms of a line with these words, one space between two words; an
\* empty word leaves no atom.
LineOf(words) == SelectSeq(Join(words), LAMBDA a : a # "")

\* The lines without their newline: a word that may name a node followed by
\* up to MaxArgs words, or another first word followed by at most one.
Lines ==
    {LineOf(<<f>> \o l) : f \in FirstWordsLong, l \in WordLists(MaxArgs)} \cup
    {LineOf(<<f>> \o l) : f \in FirstWordsShort, l \in WordLists(1)}

\* What sys.stdin.readline() returns: '' at the end of the input, a line with
\* its newline, or a last line that has none.
RawInputs ==
    {<< >>} \cup {Append(l, "\n") : l \in Lines}
            \cup {LineOf(<<f>>) : f \in FirstWordsShort}

\* The node a nodemap entry refers to; 0 stands for the controller.
NodeOf(ref) == IF ref = 0 THEN controllers["c0"] ELSE nodes[ref]

\* Node.IP(): the node's address.
NodeIP(node) == IF node.ip # "" THEN node.ip ELSE "ip:" \o node.name

CliNodeMapWithoutController ==
    [name \in {nodes[d].name : d \in DOMAIN nodes} |-> NodeNamed(name)]

\* MininetCLI.__init__: nodemap maps the name of every node of mn.nodes, and
\* 'c0', to the node.
CliNodeMap ==
    [name \in {nodes[d].name : d \in DOMAIN nodes} \cup {"c0"} |->
        IF name = "c0" THEN 0 ELSE NodeNamed(name)]

\* mn.interact(): run(MininetCLI) starts the network and constructs the shell,
\* whose __init__ enters the read loop.
Interact ==
    /\ pc = "built" /\ proc = "running" /\ pt.state = "idle" /\ cli.state = "off"
    /\ ncalls + 2 <= MaxCalls
    /\ calls' = calls \o StartCalls(ncalls + 1)
                      \o <<Call(ncalls + 1, "test", "MininetCLI")>>
    /\ ncalls' = ncalls + 1
    /\ pc' = "in_test"
    /\ cli' = [CliOff EXCEPT !.state = "prompt", !.nodemap = CliNodeMap]
    /\ UNCHANGED <<cfgVars, ctl, nodes, controllers, dps, bi, proc, blog,
                   lastMove, result, pt>>

\* [self.nodemap[arg].IP() if arg in self.nodemap else arg for arg in rest]
Substitute(rest) ==
    [k \in DOMAIN rest |->
        IF rest[k] \in DOMAIN cli.nodemap
        THEN NodeIP(NodeOf(cli.nodemap[rest[k]]))
        ELSE rest[k]]

\* The recorder's entry for a line just read; unless the branch taken says
\* otherwise the loop goes on to its next pass.
Read(raw) ==
    [cli EXCEPT !.line = raw, !.state = "next"]

\* One pass of the loop of MininetCLI.run: a line is read and dispatched.
CliLine ==
    /\ proc = "running" /\ cli.state = "prompt"
    /\ \E raw \in RawInputs :
        IF raw = << >>
        THEN /\ cli' = [Read(raw) EXCEPT !.effect = "break", !.state = "done"]
             /\ UNCHANGED <<proc, pt>>
        ELSE
          LET cmd == SplitWords(StripNewline(raw))
              first == cmd[1]
              rest == Tail(cmd)
          IN IF first \in Cmds /\ first \in CliAttributes
             THEN IF first = "ping_all"
                  THEN /\ cli' = [Read(raw) EXCEPT !.effect = "builtin", !.builtin = first,
                                                   !.args = rest, !.state = "ping"]
                       /\ pt' = PtEntered("cli", [none |-> TRUE, list |-> << >>], TRUE)
                       /\ proc' = proc
                  ELSE IF first = "ping_pair"
                  THEN LET hosts_unsorted == SortedInts(ToSet(topo.hosts))
                       IN IF Len(hosts_unsorted) < 2
                          THEN /\ cli' = [Read(raw) EXCEPT !.effect = "builtin",
                                                           !.builtin = first, !.args = rest]
                               /\ proc' = "IndexError"
                               /\ pt' = pt
                          ELSE /\ cli' = [Read(raw) EXCEPT !.effect = "builtin",
                                                           !.builtin = first, !.args = rest,
                                                           !.state = "ping"]
                               /\ pt' = PtEntered("cli",
                                            [none |-> FALSE,
                                             list |-> <<hosts_unsorted[1], hosts_unsorted[2]>>],
                                            TRUE)
                               /\ proc' = proc
                  ELSE /\ cli' = [Read(raw) EXCEPT !.effect = "builtin", !.builtin = first,
                                                   !.args = rest]
                       /\ UNCHANGED <<proc, pt>>
             ELSE IF first \in DOMAIN cli.nodemap /\ rest # << >>
             THEN /\ cli' = [Read(raw) EXCEPT !.effect = "node", !.target = first,
                                              !.sent = Join(Substitute(rest)),
                                              !.state = "monitor"]
                  /\ UNCHANGED <<proc, pt>>
             ELSE IF first = ""
             THEN /\ cli' = [Read(raw) EXCEPT !.effect = "noop"]
                  /\ UNCHANGED <<proc, pt>>
             ELSE IF first \in {"exit", "quit"}
             THEN /\ cli' = [Read(raw) EXCEPT !.effect = "break", !.state = "done"]
                  /\ UNCHANGED <<proc, pt>>
             ELSE IF first = "?"
             THEN /\ cli' = [Read(raw) EXCEPT !.effect = "builtin", !.builtin = "help",
                                              !.args = rest]
                  /\ UNCHANGED <<proc, pt>>
             ELSE /\ cli' = [Read(raw) EXCEPT !.effect = "error"]
                  /\ UNCHANGED <<proc, pt>>
    /\ UNCHANGED <<cfgVars, ctl, nodes, controllers, dps, pc, bi, blog, lastMove,
                   lifeVars>>

\* node.monitor() in the polling loop: the command is done, or it is not and
\* the loop polls again.
CliMonitor ==
    /\ proc = "running" /\ cli.state = "monitor"
    /\ \E done \in BOOLEAN :
          cli' = IF done THEN [cli EXCEPT !.state = "next", !.finished = TRUE]
                 ELSE cli
    /\ UNCHANGED <<cfgVars, ctl, nodes, controllers, dps, pc, bi, proc, blog,
                   lastMove, lifeVars, pt>>

InterruptEndsLoop(c) == [c EXCEPT !.state = "done"]

\* except KeyboardInterrupt: node.sendInt(), and the loop polls again.
SendInt(c) == [c EXCEPT !.ints = @ + 1]

\* A KeyboardInterrupt is raised inside the try block of the polling loop.
CliInterrupt ==
    /\ proc = "running" /\ cli.state = "monitor"
    /\ cli.raised < MaxInts
    /\ cli' = SendInt([cli EXCEPT !.raised = @ + 1])
    /\ UNCHANGED <<cfgVars, ctl, nodes, controllers, dps, pc, bi, proc, blog,
                   lastMove, lifeVars, pt>>

\* ping_test returns to ping_all or ping_pair, which returns to the loop.
CliPingDone ==
    /\ proc = "running" /\ cli.state = "ping" /\ pt.state = "returned"
    /\ cli' = [cli EXCEPT !.state = "next"]
    /\ pt' = PtIdle
    /\ UNCHANGED <<cfgVars, ctl, nodes, controllers, dps, pc, bi, proc, blog,
                   lastMove, lifeVars>>

\* while True: the next pass of the loop begins, at the prompt.
CliNext ==
    /\ proc = "running" /\ cli.state = "next"
    /\ cli' = [CliOff EXCEPT !.state = "prompt", !.nodemap = cli.nodemap]
    /\ UNCHANGED <<cfgVars, ctl, nodes, controllers, dps, pc, bi, proc, blog,
                   lastMove, lifeVars, pt>>

\* The loop has ended: run() of the shell returns, __init__ returns, and
\* Mininet.run stops the network and returns the shell object.
CliReturn ==
    /\ proc = "running" /\ cli.state = "done" /\ pc = "in_test"
    /\ calls' = calls \o StopCalls(ncalls + 1)
    /\ ncalls' = ncalls + 1
    /\ result' = "MininetCLI"
    /\ pc' = "built"
    /\ cli' = CliOff
    /\ UNCHANGED <<cfgVars, ctl, nodes, controllers, dps, bi, proc, blog,
                   lastMove, pt>>

Shell ==
    \/ Interact \/ CliLine \/ CliMonitor \/ CliInterrupt \/ CliPingDone
    \/ CliNext \/ CliReturn

\* The shell reads the registry: the networks here are the stars of up to
\* MaxCliHosts hosts, kernel datapath, no namespaces.
InitCLI ==
    /\ InitWith({Star(k) : k \in 0..MaxCliHosts})
    /\ nodeClass = [host |-> FALSE, switch |-> FALSE]
    /\ switch_is_kernel = TRUE

NextCLI == Build \/ Shell \/ PingTest

SpecCLI == InitCLI /\ [][NextCLI]_vars

\* ---------------------------------------------------------------- shell: claims

\* The names of the live nodes: hosts, switches and the controller.
LiveNames == {nodes[d].name : d \in DOMAIN nodes} \cup
             {controllers[c].name : c \in DOMAIN controllers}

\* The live node with this name.
LiveNode(name) ==
    IF name \in DOMAIN controllers THEN controllers[name] ELSE nodes[NodeNamed(name)]

\* C9: when the shell has dispatched a line whose first word names a live node
\* and that has further words, the command started on that node has as many
\* words as the line has further words, and its k-th word is the address of
\* the node the k-th further word names, or the k-th further word itself when
\* that names no live node.
C9_AddressSubstitution ==
    LET words == SplitWords(StripNewline(cli.line))
        sent == SplitWords(cli.sent)
    IN /\ (cli.line # << >> /\ cli.effect # "" /\ Len(words) >= 2
           /\ words[1] \in LiveNames) =>
              /\ cli.effect = "node"
              /\ cli.target = words[1]
       /\ (cli.effect = "node") =>
              /\ Len(words) >= 2 /\ words[1] \in LiveNames
              /\ Len(sent) = Len(words) - 1
              /\ \A k \in 1..Len(sent) :
                    sent[k] = IF words[k + 1] \in LiveNames
                              THEN NodeIP(LiveNode(words[k + 1]))
                              ELSE words[k + 1]

\* C9 witness: the line `h_1 ping -c1 h_2` ran `ping -c1 10.0.0.2` on h_1.
C9_Witness ==
    /\ cli.line = <<"h_1", " ", "ping", " ", "-c1", " ", "h_2", "\n">>
    /\ cli.target = "h_1"
    /\ cli.sent = <<"ping", " ", "-c1", " ", "10.0.0.2">>
    /\ cli.state = "monitor"

C16_ShellPingFailureIsReported ==
    (pt.caller = "cli" /\ cli.builtin \in {"ping_all", "ping_pair"}) => proc # "exit"

\* The built-in command words, and the built-in each one runs.
BuiltinWords == {"help", "nodes", "net", "sh", "ping_all", "ping_pair", "?"}

BuiltinOf(word) == IF word = "?" THEN "help" ELSE word

\* The branch the priority order gives a line with these words (the pieces
\* between its spaces).
BranchOf(words) ==
    IF words[1] \in BuiltinWords THEN "builtin"
    ELSE IF words[1] \in LiveNames /\ Len(words) >= 2 THEN "node"
    ELSE IF words[1] = "" THEN "noop"
    ELSE IF words[1] \in {"exit", "quit"} THEN "break"
    ELSE "error"

BlankLine ==
    /\ cli.line # << >>
    /\ \A k \in DOMAIN StripNewline(cli.line) : StripNewline(cli.line)[k] \in {" ", "\t"}

\* C10 (the claim as stated): a line that is empty or holds only whitespace
\* is a no-op: no built-in and no node command runs, no error is reported,
\* and the loop goes on to the next line.
C10_BlankLineNoOp ==
    (cli.effect # "" /\ BlankLine) => (cli.effect = "noop" /\ cli.state = "next")

\* ---------------------------------------------------------------- build: claims

\* The edges _add_link has been entered for, in order.
EdgesEntered == SelectSeq(blog, LAMBDA x : x[1] = "edge")

\* The edges whose wiring ran to the end of _add_link.
EdgesWired ==
    {<<EdgesEntered[k][2], EdgesEntered[k][3]>> :
        k \in {i \in DOMAIN EdgesEntered : ~(proc = "exit" /\ i = Len(EdgesEntered))}}

\* Some host has been configured by _config_hosts.
SomeHostConfigured == \E d \in DOMAIN nodes : nodes[d].ip # ""

\* C2: when an edge with a namespace-isolated endpoint is wired, a move that
\* fails twice and succeeds at the third attempt (or earlier) is accepted and
\* the build goes on to the next edge or step; a move that fails at all 3
\* attempts ends the process, and then the failing edge is the last thing the
\* build did: no later edge is entered and no host is configured.
C2_MoveBudget ==
    LET exhausted == \/ lastMove.srcNs /\ lastMove.srcFails >= 3
                     \/ lastMove.dstNs /\ lastMove.dstFails >= 3
        es == SortedEdges(topo.edges)
    IN /\ (proc = "exit") => (lastMove # NoMove)
       /\ (lastMove # NoMove) =>
            /\ exhausted <=> (proc = "exit")
            /\ blog[Len(blog)] = <<"edge", lastMove.edge[1], lastMove.edge[2]>>
            /\ ~exhausted =>
                 \/ pc = "edges" /\ bi > 1 /\ es[bi - 1] = lastMove.edge
                 \/ pc \in {"control", "config"} /\ es[Len(es)] = lastMove.edge
            /\ exhausted =>
                 /\ Len(EdgesEntered) = CHOOSE k \in DOMAIN es : es[k] = lastMove.edge
                 /\ ~SomeHostConfigured
                 /\ \A k \in DOMAIN blog : blog[k][1] # "config_hosts"

\* C2 witness: on an edge that is not the last one, the source's move succeeded
\* at the third attempt, the destination's move was then tried and failed 3
\* times, and the process ended.
C2_Witness ==
    /\ lastMove.srcNs /\ lastMove.srcFails = 2
    /\ lastMove.dstNs /\ lastMove.dstFails = 3
    /\ proc = "exit"
    /\ Len(EdgesEntered) < Cardinality(topo.edges)

\* All interface entries of all nodes, as (dpid, position) pairs.
IntfEntries == UNION {{<<d, i>> : i \in DOMAIN nodes[d].intfs} : d \in DOMAIN nodes}

\* C3 (the claim as stated): a completed build yields |hosts(T)| host handles,
\* |switches(T)| switch handles, 1 controller handle and exactly 2*|edges(T)|
\* interface entries, each interface name in exactly one entry of exactly one
\* node's interface list and in exactly one connection-map entry.
C3_HandleAndInterfaceCounts ==
    (pc = "built") =>
        /\ Cardinality({d \in DOMAIN nodes : nodes[d].kind = "host"}) = Len(topo.hosts)
        /\ Cardinality({d \in DOMAIN nodes : nodes[d].kind = "switch"}) = Len(topo.switches)
        /\ Cardinality(DOMAIN controllers) = 1
        /\ Cardinality(IntfEntries) = 2 * Cardinality(topo.edges)
        /\ \A p \in IntfEntries, q \in IntfEntries :
              nodes[p[1]].intfs[p[2]] = nodes[q[1]].intfs[q[2]] => p = q
        /\ \A p \in IntfEntries :
              Cardinality({d \in DOMAIN nodes :
                  nodes[p[1]].intfs[p[2]] \in DOMAIN nodes[d].connection}) = 1

\* C4: after any sequence of edge wirings the connection maps are symmetric:
\* every wired edge (A, B) has an interface i of A and an interface j of B with
\* A.connection[i] = (B, j) and B.connection[j] = (A, i), and every entry of
\* every connection map is answered by the peer's entry.
C4_ConnectionsSymmetric ==
    /\ \A e \in EdgesWired :
         \E i \in DOMAIN nodes[e[1]].connection, j \in DOMAIN nodes[e[2]].connection :
            /\ i \in ToSet(nodes[e[1]].intfs) /\ j \in ToSet(nodes[e[2]].intfs)
            /\ nodes[e[1]].connection[i] = <<nodes[e[2]].name, j>>
            /\ nodes[e[2]].connection[j] = <<nodes[e[1]].name, i>>
    /\ \A d \in DOMAIN nodes : \A i \in DOMAIN nodes[d].connection :
         LET peer == nodes[d].connection[i]
         IN /\ \E b \in DOMAIN nodes : nodes[b].name = peer[1]
            /\ peer[2] \in DOMAIN nodes[NodeNamed(peer[1])].connection
            /\ nodes[NodeNamed(peer[1])].connection[peer[2]] = <<nodes[d].name, i>>

\* C4 witness: two edges that share a node are wired.
C4_Witness ==
    /\ Cardinality(EdgesWired) >= 2
    /\ \E d \in DOMAIN nodes : Cardinality(DOMAIN nodes[d].connection) >= 2

\* The switches added so far, in the order they were added.
SwitchesAdded == SelectSeq(blog, LAMBDA x : x[1] = "switch")

\* C5: in kernel-datapath mode the i-th switch added gets datapath index
\* i - 1, switches are added in ascending id order, no two switches share an
\* index, and the network's counter is the number of switches added so far.
C5_DatapathIndices ==
    switch_is_kernel =>
        /\ dps = Len(SwitchesAdded)
        /\ \A i \in DOMAIN SwitchesAdded :
              /\ nodes[SwitchesAdded[i][2]].dp = i - 1
              /\ i > 1 => SwitchesAdded[i - 1][2] < SwitchesAdded[i][2]
        /\ \A a \in DOMAIN nodes, b \in DOMAIN nodes :
              (nodes[a].kind = "switch" /\ nodes[b].kind = "switch"
               /\ nodes[a].dp = nodes[b].dp) => a = b

\* C5 witness: a kernel-mode network is built with three switches.
C5_Witness ==
    /\ switch_is_kernel /\ pc = "built"
    /\ Len(SwitchesAdded) >= 3
    /\ dps = 3

\* The positions in the build's recorder of the steps of this kind.
StepsOf(kind) == {k \in DOMAIN blog : blog[k][1] = kind}

\* C14 (the claim as stated): the build of a network configured for the user
\* datapath (switch_is_kernel = False) configures the control network once,
\* after the last edge is wired and before the hosts are addressed; the build
\* of a kernel-datapath network does not configure it.
C14_ControlNetworkPhase ==
    pc = "built" =>
       IF switch_is_kernel
       THEN StepsOf("control") = {}
       ELSE /\ Cardinality(StepsOf("control")) = 1
            /\ \A c \in StepsOf("control") :
                  /\ \A e \in StepsOf("edge") : e < c
                  /\ \A h \in StepsOf("config_hosts") : c < h

\* The place of a kind of step in the order of build().
StepRank(kind) ==
    CASE kind = "controller" -> 1
      [] kind = "host" -> 2
      [] kind = "switch" -> 3
      [] kind = "edge" -> 4
      [] kind = "control" -> 5
      [] OTHER -> 6

\* C17: the steps of build() come in the fixed order: the controller c0 once
\* and first, the hosts in ascending id order, the switches in ascending id
\* order, the edges in ascending (source, destination) order, then the hosts'
\* addressing; each host, switch and edge of the topology has its step once the
\* next kind of step begins; both endpoints of an edge are in the registry
\* when it is wired, and every edge is wired when a host has its address.
C17_BuildOrder ==
    /\ \A a \in DOMAIN blog, b \in DOMAIN blog :
          a < b =>
            /\ StepRank(blog[a][1]) <= StepRank(blog[b][1])
            /\ (blog[a][1] = blog[b][1] /\ blog[a][1] \in {"host", "switch"}) =>
                  blog[a][2] < blog[b][2]
            /\ (blog[a][1] = "edge" /\ blog[b][1] = "edge") =>
                  TupleLess(<<blog[a][2], blog[a][3]>>, <<blog[b][2], blog[b][3]>>)
    /\ blog # << >> => blog[1] = <<"controller", 0, 0>> /\ DOMAIN controllers = {"c0"}
    /\ Cardinality(StepsOf("controller")) <= 1
    /\ Cardinality(StepsOf("config_hosts")) <= 1
    /\ {blog[k][2] : k \in StepsOf("host")} \subseteq ToSet(topo.hosts)
    /\ {blog[k][2] : k \in StepsOf("switch")} \subseteq ToSet(topo.switches)
    /\ {<<blog[k][2], blog[k][3]>> : k \in StepsOf("edge")} \subseteq topo.edges
    /\ StepsOf("switch") # {} =>
          {blog[k][2] : k \in StepsOf("host")} = ToSet(topo.hosts)
    /\ StepsOf("edge") # {} =>
          /\ {blog[k][2] : k \in StepsOf("host")} = ToSet(topo.hosts)
          /\ {blog[k][2] : k \in StepsOf("switch")} = ToSet(topo.switches)
    /\ \A k \in StepsOf("edge") : {blog[k][2], blog[k][3]} \subseteq DOMAIN nodes
    /\ (StepsOf("config_hosts") # {} \/ SomeHostConfigured) =>
          /\ {blog[k][2] : k \in StepsOf("host")} = ToSet(topo.hosts)
          /\ {blog[k][2] : k \in StepsOf("switch")} = ToSet(topo.switches)
          /\ {<<blog[k][2], blog[k][3]>> : k \in StepsOf("edge")} = topo.edges
          /\ \A e \in topo.edges :
                \E i \in DOMAIN nodes[e[1]].connection :
                   nodes[e[1]].connection[i][1] = nodes[e[2]].name
    /\ (pc = "built") <=> (StepsOf("config_hosts") # {})

\* C17 witness: a network with a host, two switches that the topology lists
\* in descending order, and two edges is built.
C17_Witness ==
    /\ pc = "built"
    /\ Len(topo.hosts) >= 1 /\ Len(topo.switches) >= 2
    /\ topo.switches[1] > topo.switches[2]
    /\ Cardinality(topo.edges) >= 2
    /\ Len(blog) = 2 + Len(topo.hosts) + Len(topo.switches) + Cardinality(topo.edges)
====
